---- MODULE Spec2Model ----
(***************************************************************************)
(* Recommendation pipeline of src/app.py: get_ai_recommendations (the      *)
(* remote path with its three fallback return sites) and                   *)
(* get_default_recommendations (the threshold cascade, the backfill loop   *)
(* and the priority selection).                                            *)
(*                                                                         *)
(* Numbers.  The four readings are Python floats.  They are modelled as    *)
(* integers in hundredths of the unit (30000 = 300.00 K), drawn from       *)
(* multiples of 25, i.e. from quarter units, which binary floating point   *)
(* represents exactly: process_temp - air_temp and every comparison with   *)
(* an integer threshold are then exact in the code as well.  The literal   *)
(* 273.15 is not exact in binary (it is slightly below 273.15), which      *)
(* only matters for the rounding of process_temp_c in Format1Up.           *)
(***************************************************************************)
EXTENDS Integers, Sequences, FiniteSets

VARIABLES
    GROQ_API_KEY,       \* module global, line 15: "key" or "None"
    pc,                 \* "idle" | "posting" | "done"
    air_temp,           \* feature_1, hundredths of K
    process_temp,       \* feature_2, hundredths of K
    rotational_speed,   \* feature_3, hundredths of RPM
    torque,             \* feature_4, hundredths of Nm
    prediction_result,  \* classifier label, 0 or 1
    authorization,      \* the Authorization header of the request sent
    response,           \* what requests.post produced
    site,               \* which return statement of get_ai_recommendations ran
    recommendations,    \* the value get_ai_recommendations returned
    spc,                \* selection harness: "idle" | "ready" | "done"
    power_estimate,     \* selection harness: the pool's interpolated value
    candidates,         \* selection harness: the list at line 241
    selected            \* selection harness: the list returned at line 272

vars == <<GROQ_API_KEY, pc, air_temp, process_temp, rotational_speed, torque,
          prediction_result, authorization, response, site, recommendations,
          spc, power_estimate, candidates, selected>>

reqVars == <<pc, air_temp, process_temp, rotational_speed, torque,
             prediction_result, authorization, response, site, recommendations>>

selVars == <<spc, power_estimate, candidates, selected>>

----------------------------------------------------------------------------
(* Bounds *)

\* longest "recommendations" array the remote reply carries
MaxRecs == 4

\* longest message content (in tokens) enumerated exhaustively
MaxContent == 3

\* longest candidate list fed to the selection step
MaxCands == 5

----------------------------------------------------------------------------
(* Values *)

None == "None"

\* a JSON object member that is not there
Absent == "<absent>"

Rec(t, d, v, i, p) ==
    [title |-> t, description |-> <<d, v>>, icon |-> i, priority |-> p]

\* a Python value returned to the caller: a list, or something else
PyList(s) == [kind |-> "list", items |-> s]

PyOther(k) == [kind |-> k, items |-> <<>>]

\* f"{x:.1f}" of a float that is an exact multiple of 0.25: round half to even.
\* x in hundredths, result in tenths.
Format1Even(x) ==
    LET q == x \div 10
        r == x % 10
    IN  IF r > 5 THEN q + 1
        ELSE IF r < 5 THEN q
        ELSE IF q % 2 = 0 THEN q ELSE q + 1

\* f"{x:.1f}" of process_temp - 273.15: the float 273.15 lies below the decimal
\* 273.15, so the difference lies above its decimal value and a decimal tie
\* rounds up.  x in hundredths, result in tenths.
Format1Up(x) == (x + 5) \div 10

\* line 139 with f"{power_estimate:.2f}": torque * rotational_speed * 2 * 3.14159
\* / 60000, in hundredths of kW, rounded to nearest.  With t and s in hundredths
\* this is t*s*314159 / (3 * 10^11); the product is split so that every
\* intermediate stays below 2^31.  No input of the model is a tie.
PowerEstimate(t, s) ==
    LET p == t * s
        a == p \div 1000000
        b == p % 1000000
        c == b \div 1000
        e == b % 1000
        inner == (c * 314159 + ((e * 314159) \div 1000)) \div 1000
        n == a * 314159 + inner
    IN  (n + 150000) \div 300000

----------------------------------------------------------------------------
(* get_default_recommendations, lines 105-272 *)

\* lines 112-136: the temperature analysis
ThermalRec(air, proc) ==
    LET temp_diff == proc - air
        process_temp_c == proc - 27315
    IN  IF temp_diff > 1500
        THEN Rec("Cooling System Optimization",
                 "Temperature differential of {temp_diff:.1f}K detected",
                 Format1Even(temp_diff), "fas fa-snowflake", "high")
        ELSE IF process_temp_c > 5000
        THEN Rec("Temperature Monitoring Enhancement",
                 "Process temperature at {process_temp_c:.1f}C requires attention",
                 Format1Up(process_temp_c), "fas fa-thermometer-half", "medium")
        ELSE Rec("Thermal Stability Maintenance",
                 "Current thermal conditions are stable",
                 0, "fas fa-temperature-low", "low")

\* lines 141-161: the speed analysis
SpeedRecGe(speed) ==
    IF speed >= 200000
    THEN Rec("High-Speed Bearing Maintenance",
             "Operating at {rotational_speed} RPM requires premium lubrication",
             speed, "fas fa-tachometer-alt", "high")
    ELSE IF speed <= 100000
    THEN Rec("Low-Speed Operation Analysis",
             "Low speed operation at {rotational_speed} RPM",
             speed, "fas fa-search", "medium")
    ELSE Rec("Optimal Speed Range Monitoring",
             "Current speed of {rotational_speed} RPM is within normal range",
             speed, "fas fa-gauge", "low")

SpeedRec(speed) ==
    IF speed > 200000
    THEN Rec("High-Speed Bearing Maintenance",
             "Operating at {rotational_speed} RPM requires premium lubrication",
             speed, "fas fa-tachometer-alt", "high")
    ELSE IF speed < 100000
    THEN Rec("Low-Speed Operation Analysis",
             "Low speed operation at {rotational_speed} RPM",
             speed, "fas fa-search", "medium")
    ELSE Rec("Optimal Speed Range Monitoring",
             "Current speed of {rotational_speed} RPM is within normal range",
             speed, "fas fa-gauge", "low")

\* lines 163-183: the torque analysis
TorqueRecPasted(t) ==
    IF t > 5000
    THEN Rec("High-Torque Component Inspection",
             "High torque load of {torque} Nm detected",
             t, "fas fa-wrench", "high")
    ELSE IF t < 2000
    THEN Rec("Drive System Verification",
             "Low torque reading of {torque} Nm",
             t, "fas fa-tools", "medium")
    ELSE Rec("Thermal Stability Maintenance",
             "Current thermal conditions are stable",
             0, "fas fa-temperature-low", "low")

TorqueRec(t) ==
    IF t > 5000
    THEN Rec("High-Torque Component Inspection",
             "High torque load of {torque} Nm detected",
             t, "fas fa-wrench", "high")
    ELSE IF t < 2000
    THEN Rec("Drive System Verification",
             "Low torque reading of {torque} Nm",
             t, "fas fa-tools", "medium")
    ELSE Rec("Torque Load Optimization",
             "Current torque of {torque} Nm is within acceptable range",
             t, "fas fa-balance-scale", "low")

\* lines 186-199: the maintenance prediction
UrgencyRec(pred) ==
    IF pred = 1
    THEN Rec("Immediate Maintenance Protocol",
             "AI model indicates maintenance required",
             0, "fas fa-exclamation-triangle", "high")
    ELSE Rec("Preventive Maintenance Scheduling",
             "Machine is operating normally",
             0, "fas fa-calendar-check", "low")

\* lines 109-199: the list built by the four appends, in order
CascadeNoElse(air, proc, speed, t, pred) ==
    <<ThermalRec(air, proc), SpeedRec(speed), TorqueRec(t)>>
    \o (IF pred = 1 THEN <<UrgencyRec(pred)>> ELSE <<>>)

Cascade(air, proc, speed, t, pred) ==
    <<ThermalRec(air, proc), SpeedRec(speed), TorqueRec(t), UrgencyRec(pred)>>

\* lines 202-239: the pool; pe is power_estimate as the description prints it
additional_recommendations(pe) ==
    << Rec("Vibration Analysis Implementation",
           "Conduct comprehensive vibration analysis", 0,
           "fas fa-wave-square", "medium"),
       Rec("Lubrication Schedule Optimization",
           "Review and optimize lubrication intervals", 0,
           "fas fa-oil-can", "medium"),
       Rec("Performance Trending & Analytics",
           "Establish comprehensive baseline performance metrics", 0,
           "fas fa-chart-line", "low"),
       Rec("Energy Efficiency Audit",
           "With estimated power output of {power_estimate:.2f} kW", pe,
           "fas fa-bolt", "medium"),
       Rec("Safety Protocol Review",
           "Review current safety protocols and emergency procedures", 0,
           "fas fa-shield-alt", "medium"),
       Rec("Sensor Calibration Check",
           "Verify accuracy of temperature, speed, and torque sensors", 0,
           "fas fa-adjust", "low") >>

\* rec in recommendations (list membership by value equality)
In(rec, recs) == \E i \in 1..Len(recs) : recs[i] = rec

\* lines 242-247: while fewer than 4, append the first pool item not yet in the
\* list.  A pass of the for loop that appends nothing leaves the while loop
\* spinning; the pool holds 6 distinct items and the list fewer than 4, so some
\* pool item is always missing and that branch is never taken.
RECURSIVE Backfill(_, _)
Backfill(recs, pool) ==
    IF Len(recs) >= 4
    THEN recs
    ELSE LET missing == {i \in 1..Len(pool) : ~In(pool[i], recs)}
         IN  IF missing = {}
             THEN recs
             ELSE LET first == CHOOSE i \in missing : \A j \in missing : i <= j
                  IN  Backfill(Append(recs, pool[first]), pool)

\* [r for r in recs if r["priority"] == p]
RECURSIVE WithPriority(_, _)
WithPriority(recs, p) ==
    IF recs = <<>>
    THEN <<>>
    ELSE (IF Head(recs).priority = p THEN <<Head(recs)>> ELSE <<>>)
         \o WithPriority(Tail(recs), p)

\* xs[:n] for n >= 0
Take(xs, n) == SubSeq(xs, 1, IF n < Len(xs) THEN n ELSE Len(xs))

\* lines 250-270: more than 4: at most 2 high, then medium, then low
PrioritySelectThree(recs) ==
    IF Len(recs) > 4
    THEN LET high_priority == WithPriority(recs, "high")
             medium_priority == WithPriority(recs, "medium")
             low_priority == WithPriority(recs, "low")
             final1 == Take(high_priority, 3)
             final2 == final1 \o Take(medium_priority, 4 - Len(final1))
             remaining_slots == 4 - Len(final2)
         IN  IF remaining_slots > 0
             THEN final2 \o Take(low_priority, remaining_slots)
             ELSE final2
    ELSE recs

PrioritySelect(recs) ==
    IF Len(recs) > 4
    THEN LET high_priority == WithPriority(recs, "high")
             medium_priority == WithPriority(recs, "medium")
             low_priority == WithPriority(recs, "low")
             final1 == Take(high_priority, 2)
             final2 == final1 \o Take(medium_priority, 4 - Len(final1))
             remaining_slots == 4 - Len(final2)
         IN  IF remaining_slots > 0
             THEN final2 \o Take(low_priority, remaining_slots)
             ELSE final2
    ELSE recs

\* lines 241-272: the selection step applied to the list of line 241
SelectFour(recs, pool) == Take(PrioritySelect(Backfill(recs, pool)), 4)

get_default_recommendations(air, proc, speed, t, pred) ==
    SelectFour(Cascade(air, proc, speed, t, pred),
               additional_recommendations(PowerEstimate(t, speed)))

----------------------------------------------------------------------------
(* get_ai_recommendations, lines 19-103 *)

(* The message content is a sequence of tokens: "w" a run of prose, "{" and  *)
(* "}" the braces, "R" the text of the member "recommendations": <value>.    *)
(* The value of that member travels beside the tokens, in the recs field.    *)
Tokens == {"w", "{", "}", "R"}

\* content.find(ch): 0-based index of the first occurrence, -1 if none
Find(content, ch) ==
    LET hits == {i \in 1..Len(content) : content[i] = ch}
    IN  IF hits = {} THEN -1
        ELSE (CHOOSE i \in hits : \A j \in hits : i <= j) - 1

\* content.rfind(ch): 0-based index of the last occurrence, -1 if none
RFind(content, ch) ==
    LET hits == {i \in 1..Len(content) : content[i] = ch}
    IN  IF hits = {} THEN -1
        ELSE (CHOOSE i \in hits : \A j \in hits : i >= j) - 1

\* content[start:stop] with Python's reading of a negative start
Slice(content, start, stop) ==
    LET n == Len(content)
        s0 == IF start < 0 THEN start + n ELSE start
        s1 == IF s0 < 0 THEN 0 ELSE s0
        e1 == IF stop > n THEN n ELSE stop
    IN  SubSeq(content, s1 + 1, e1)

\* lines 89-91
json_str(content) ==
    Slice(content, Find(content, "{"), RFind(content, "}") + 1)

\* json.loads succeeds on an object with no member or with the one member
Decodes(text) == text = <<"{", "}">> \/ text = <<"{", "R", "}">>

\* recommendations_data['recommendations'] finds the key
HasKey(text) == text = <<"{", "R", "}">>

\* which return statement runs for what requests.post produced
ReturnSite(resp) ==
    IF resp.outcome # "response"
    THEN "line103"                 \* requests.post raised: except, line 101
    ELSE IF resp.status = 200
    THEN IF resp.body \in {"not_json", "no_choices"}
         THEN "line103"            \* lines 83-84 raise outside the inner try
         ELSE IF resp.body = "null_content"
         THEN "line96"             \* None.find raises inside the inner try
         ELSE IF Decodes(json_str(resp.content))
                 /\ HasKey(json_str(resp.content))
         THEN "line93"
         ELSE "line96"             \* json.loads or the subscript raised
    ELSE "line99"

get_ai_recommendations_empty(air, proc, speed, t, pred, resp) ==
    IF ReturnSite(resp) = "line93"
    THEN resp.recs
    ELSE IF ReturnSite(resp) = "line99"
    THEN PyList(<<>>)
    ELSE PyList(get_default_recommendations(air, proc, speed, t, pred))

get_ai_recommendations(air, proc, speed, t, pred, resp) ==
    IF ReturnSite(resp) = "line93"
    THEN resp.recs
    ELSE PyList(get_default_recommendations(air, proc, speed, t, pred))

----------------------------------------------------------------------------
(* Inputs *)

\* readings in hundredths, on and beside the thresholds of the cascade
AirTemps == {30000, 31000}

ProcessTemps == {31500, 31525, 32000, 32300, 32325, 32500}

Speeds == {99975, 100000, 200000, 250000}

Torques == {1975, 2000, 5000, 6000}

Labels == {0, 1}

\* objects the remote model may put in the array
AiGood == Rec("AI title", "AI text", 0, "fas fa-cog", "high")

AiNoIcon == Rec("AI title", "AI text", 0, Absent, "medium")

AiBadPriority == Rec("AI title", "AI text", 0, "fas fa-cog", "urgent")

AiItems == {AiGood, AiNoIcon, AiBadPriority}

SeqsUpTo(S, n) == UNION {[1..k -> S] : k \in 0..n}

\* values of the "recommendations" member
RecValues ==
    {PyList(s) : s \in SeqsUpTo(AiItems, MaxRecs)}
    \cup {PyOther("string"), PyOther("null")}

FourGood == PyList(<<AiGood, AiGood, AiGood, AiGood>>)

Resp(o, st, b, c, r) ==
    [outcome |-> o, status |-> st, body |-> b, content |-> c, recs |-> r]

NoResponse == Resp("none", 0, "", <<>>, PyOther("null"))

\* requests.post raised
Raised ==
    {Resp(o, 0, "", <<>>, PyOther("null")) :
        o \in {"Timeout", "ConnectionError"}}

\* a reply with another status than 200
Refused ==
    {Resp("response", st, "text", <<>>, PyOther("null")) : st \in {401, 500}}

\* a 200 whose body is not the expected envelope, or whose content is null
BadEnvelope ==
    {Resp("response", 200, b, <<>>, PyOther("null")) :
        b \in {"not_json", "no_choices", "null_content"}}

\* a 200 with text content: the JSON wrapped in prose with every value of the
\* member, and every short token sequence with a well-formed value
Ok200 ==
    {Resp("response", 200, "text", <<"w", "{", "R", "}", "w">>, r) :
        r \in RecValues}
    \cup {Resp("response", 200, "text", c, FourGood) :
        c \in SeqsUpTo(Tokens, MaxContent)}

----------------------------------------------------------------------------
(* The request cycle *)

Init ==
    /\ GROQ_API_KEY \in {"gsk_key", None}
    /\ pc = "idle"
    /\ air_temp = 0
    /\ process_temp = 0
    /\ rotational_speed = 0
    /\ torque = 0
    /\ prediction_result = 0
    /\ authorization = <<>>
    /\ response = NoResponse
    /\ site = "none"
    /\ recommendations = PyOther("null")
    /\ spc = "idle"
    /\ power_estimate = 0
    /\ candidates = <<>>
    /\ selected = <<>>

\* predict, lines 286-304, and get_ai_recommendations up to the post of line 80
Predict ==
    /\ pc = "idle"
    /\ \E a \in AirTemps, p \in ProcessTemps, s \in Speeds, t \in Torques,
          l \in Labels :
            /\ air_temp' = a
            /\ process_temp' = p
            /\ rotational_speed' = s
            /\ torque' = t
            /\ prediction_result' = l
    /\ authorization' = <<"Bearer", GROQ_API_KEY>>
    /\ pc' = "posting"
    /\ UNCHANGED <<GROQ_API_KEY, response, site, recommendations, selVars>>

\* the rest of get_ai_recommendations, lines 80-103, for the outcome resp
Complete(resp) ==
    /\ pc = "posting"
    /\ response' = resp
    /\ site' = ReturnSite(resp)
    /\ recommendations' =
           get_ai_recommendations(air_temp, process_temp, rotational_speed,
                                  torque, prediction_result, resp)
    /\ pc' = "done"
    /\ UNCHANGED <<GROQ_API_KEY, air_temp, process_temp, rotational_speed,
                   torque, prediction_result, authorization, selVars>>

PostRaises == \E resp \in Raised : Complete(resp)

ReplyRefused == \E resp \in Refused : Complete(resp)

ReplyBadEnvelope == \E resp \in BadEnvelope : Complete(resp)

ReplyOk == \E resp \in Ok200 : Complete(resp)

\* predict, lines 306-324: the page is rendered and the request's data dropped
Render ==
    /\ pc = "done"
    /\ pc' = "idle"
    /\ air_temp' = 0
    /\ process_temp' = 0
    /\ rotational_speed' = 0
    /\ torque' = 0
    /\ prediction_result' = 0
    /\ authorization' = <<>>
    /\ response' = NoResponse
    /\ site' = "none"
    /\ recommendations' = PyOther("null")
    /\ UNCHANGED <<GROQ_API_KEY, selVars>>

Next ==
    \/ Predict
    \/ PostRaises
    \/ ReplyRefused
    \/ ReplyBadEnvelope
    \/ ReplyOk
    \/ Render

Spec == Init /\ [][Next]_vars

----------------------------------------------------------------------------
(* The selection step of lines 241-272 on its own *)

\* the cascade's four High items for 300 K, 320 K, 2500 RPM, 60 Nm, label 1
ScenarioA == Cascade(30000, 32000, 250000, 6000, 1)

\* items a candidate list is drawn from
FeedItems ==
    { ThermalRec(30000, 32000), SpeedRec(250000), TorqueRec(6000),
      UrgencyRec(1), additional_recommendations(0)[1], TorqueRec(2000) }

\* lines 109-239 for one reading: the list and the pool's power value
SelGenerate ==
    /\ spc = "idle"
    /\ \E a \in AirTemps, p \in ProcessTemps, s \in Speeds, t \in Torques,
          l \in Labels :
            /\ candidates' = Cascade(a, p, s, t, l)
            /\ power_estimate' = PowerEstimate(t, s)
    /\ spc' = "ready"
    /\ UNCHANGED <<GROQ_API_KEY, reqVars, selected>>

\* a candidate list from elsewhere reaches line 241
SelFeed ==
    /\ spc = "idle"
    /\ candidates' \in SeqsUpTo(FeedItems, MaxCands)
    /\ \E s \in {100000, 250000} : power_estimate' = PowerEstimate(6000, s)
    /\ spc' = "ready"
    /\ UNCHANGED <<GROQ_API_KEY, reqVars, selected>>

\* lines 241-272
SelSelect ==
    /\ spc = "ready"
    /\ selected' =
           SelectFour(candidates, additional_recommendations(power_estimate))
    /\ spc' = "done"
    /\ UNCHANGED <<GROQ_API_KEY, reqVars, power_estimate, candidates>>

SelReset ==
    /\ spc = "done"
    /\ spc' = "idle"
    /\ power_estimate' = 0
    /\ candidates' = <<>>
    /\ selected' = <<>>
    /\ UNCHANGED <<GROQ_API_KEY, reqVars>>

SelNext ==
    \/ SelGenerate
    \/ SelFeed
    \/ SelSelect
    \/ SelReset

SelSpec == Init /\ [][SelNext]_vars

----------------------------------------------------------------------------
(* Vocabulary of the claims *)

Priorities == {"high", "medium", "low"}

\* what get_default_recommendations returns for the request in hand
Fallback ==
    PyList(get_default_recommendations(air_temp, process_temp,
                                       rotational_speed, torque,
                                       prediction_result))

\* the text from the first "{" to the last "}" of a message, if there is one
ObjectText(c) ==
    LET opens == {i \in 1..Len(c) : c[i] = "{"}
        closes == {i \in 1..Len(c) : c[i] = "}"}
    IN  IF opens = {} \/ closes = {}
        THEN <<>>
        ELSE LET lo == CHOOSE i \in opens : \A j \in opens : i <= j
                 hi == CHOOSE i \in closes : \A j \in closes : i >= j
             IN  IF lo > hi THEN <<>> ELSE SubSeq(c, lo, hi)

\* the reply is a 200 whose content holds a JSON object with the key
CarriesRecommendations ==
    /\ response.outcome = "response"
    /\ response.status = 200
    /\ response.body = "text"
    /\ ObjectText(response.content) = <<"{", "R", "}">>

\* the remote path failed
RemoteFailed == ~CarriesRecommendations

WellFormedItem(r) ==
    /\ r.title # Absent
    /\ r.description[1] # Absent
    /\ r.icon # Absent
    /\ r.priority \in Priorities

WellFormedValue(v) ==
    /\ v.kind = "list"
    /\ \A i \in 1..Len(v.items) : WellFormedItem(v.items[i])

CountPriority(recs, p) == Cardinality({i \in 1..Len(recs) : recs[i].priority = p})

NoDuplicates(recs) ==
    \A i, j \in 1..Len(recs) : i # j => recs[i] # recs[j]

TitlesIn(recs, titles) == {i \in 1..Len(recs) : recs[i].title \in titles}

ThermalTitles ==
    {"Cooling System Optimization", "Temperature Monitoring Enhancement",
     "Thermal Stability Maintenance"}

SpeedTitles ==
    {"High-Speed Bearing Maintenance", "Low-Speed Operation Analysis",
     "Optimal Speed Range Monitoring"}

TorqueTitles ==
    {"High-Torque Component Inspection", "Drive System Verification",
     "Torque Load Optimization"}

UrgencyTitles ==
    {"Immediate Maintenance Protocol", "Preventive Maintenance Scheduling"}

\* the request ended on one of the three fallback returns
ViaFallback == pc = "done" /\ site \in {"line96", "line99", "line103"}

PriorityRank(r) ==
    IF r.priority = "high" THEN 1 ELSE IF r.priority = "medium" THEN 2 ELSE 3

HasItem(recs, title, priority) ==
    \E i \in 1..Len(recs) : recs[i].title = title /\ recs[i].priority = priority

----------------------------------------------------------------------------
(* Claims *)

\* C1: whatever the remote service does, get_ai_recommendations returns a
\* list of exactly 4 recommendations.
C1_AlwaysFour ==
    pc = "done" =>
        recommendations.kind = "list" /\ Len(recommendations.items) = 4

\* C2: when the remote path fails (post raised, status other than 200, body or
\* content that cannot be decoded, or no recommendations key), the value
\* returned is exactly the rule-based fallback for the same reading and label.
C2_FailureGivesFallback ==
    (pc = "done" /\ RemoteFailed) =>
        (recommendations = Fallback /\ site # "line93")

\* C2 witness: the post timed out and the fallback's four items came back
C2_Witness ==
    /\ pc = "done"
    /\ response.outcome = "Timeout"
    /\ recommendations = Fallback
    /\ Len(recommendations.items) = 4

\* C3: a 200 with decodable JSON whose recommendations array does not hold
\* exactly 4 elements is a parse failure: the fallback result is returned.
C3_WrongArityFallsBack ==
    ( /\ pc = "done"
      /\ CarriesRecommendations
      /\ response.recs.kind = "list"
      /\ Len(response.recs.items) # 4 ) =>
        recommendations = Fallback

\* C4: what the AI path returns is a list whose every element carries title,
\* description, icon and a priority among high, medium, low; a reply whose
\* recommendations value is not such a list is answered with the fallback.
C4_AiItemsWellFormed ==
    /\ (pc = "done" /\ site = "line93") => WellFormedValue(recommendations)
    /\ (pc = "done" /\ CarriesRecommendations
           /\ ~WellFormedValue(response.recs)) =>
               recommendations = Fallback

\* C5: with GROQ_API_KEY absent the request ends in the fallback, whatever
\* the remote service would answer.
C5_NoKeyFallsBack ==
    (pc = "done" /\ GROQ_API_KEY = None) =>
        (site # "line93" /\ recommendations = Fallback)

\* C6 as stated: a candidate list of length >= 4 with at least 2 High items
\* is cut to at most 2 High items, and the four High candidates of the
\* reading 300 K, 320 K, 2500 RPM, 60 Nm with label 1 come back as 2 High
\* items and 2 Medium or Low items.
C6_Original ==
    ( /\ spc = "done"
      /\ NoDuplicates(candidates)
      /\ Len(candidates) >= 4
      /\ CountPriority(candidates, "high") >= 2 ) =>
        /\ CountPriority(selected, "high") <= 2
        /\ candidates = ScenarioA =>
               /\ CountPriority(selected, "high") = 2
               /\ CountPriority(selected, "medium")
                      + CountPriority(selected, "low") = 2

\* C6 as amended: a candidate list of length > 4 with at least 2 High items is
\* cut to at most 2 High items; a list of exactly 4 is returned unchanged, so
\* the four High candidates of that reading all come back.
C6_Amended ==
    spc = "done" =>
        /\ (Len(candidates) > 4 /\ CountPriority(candidates, "high") >= 2) =>
               CountPriority(selected, "high") <= 2
        /\ Len(candidates) = 4 => selected = candidates
        /\ candidates = ScenarioA => CountPriority(selected, "high") = 4

\* C6 witness: more than 4 candidates, more than 2 of them High, were cut
C6_Witness ==
    /\ spc = "done"
    /\ Len(candidates) > 4
    /\ CountPriority(candidates, "high") > 2
    /\ CountPriority(selected, "high") = 2

\* C7: the fallback returns exactly 4 recommendations, one from each of the
\* thermal, speed, torque and maintenance cascades.
C7_FallbackFourOnePerCascade ==
    ViaFallback =>
        /\ recommendations.kind = "list"
        /\ Len(recommendations.items) = 4
        /\ \A titles \in {ThermalTitles, SpeedTitles, TorqueTitles,
                          UrgencyTitles} :
               Cardinality(TitlesIn(recommendations.items, titles)) = 1

\* C7 witness: a refused request with label 0 ended with four items
C7_Witness ==
    /\ pc = "done"
    /\ site = "line99"
    /\ prediction_result = 0
    /\ Len(recommendations.items) = 4

\* C8: the thresholds are strict: a differential of exactly 15 K is not the
\* High cooling alert, 1000 and 2000 RPM give the Low normal-range item, 20
\* and 50 Nm give the Low acceptable-range item, and each of the three
\* categories contributes exactly one item.
C8_StrictThresholds ==
    ViaFallback =>
        LET items == recommendations.items
        IN  /\ process_temp - air_temp = 1500 =>
                   ~HasItem(items, "Cooling System Optimization", "high")
            /\ rotational_speed \in {100000, 200000} =>
                   HasItem(items, "Optimal Speed Range Monitoring", "low")
            /\ torque \in {2000, 5000} =>
                   HasItem(items, "Torque Load Optimization", "low")
            /\ \A titles \in {ThermalTitles, SpeedTitles, TorqueTitles} :
                   Cardinality(TitlesIn(items, titles)) = 1

\* C8 witness: a fallback for a reading on all three boundaries at once
C8_Witness ==
    /\ ViaFallback
    /\ process_temp - air_temp = 1500
    /\ rotational_speed = 200000
    /\ torque = 5000
    /\ HasItem(recommendations.items, "Optimal Speed Range Monitoring", "low")

\* C9: the four recommendations of the fallback are pairwise distinct under
\* equality of title, description, icon and priority.
C9_FallbackDistinct ==
    ViaFallback =>
        /\ Len(recommendations.items) = 4
        /\ NoDuplicates(recommendations.items)

\* C9 witness: a fallback whose thermal and torque items are both the Low ones
C9_Witness ==
    /\ ViaFallback
    /\ HasItem(recommendations.items, "Thermal Stability Maintenance", "low")
    /\ HasItem(recommendations.items, "Torque Load Optimization", "low")
    /\ NoDuplicates(recommendations.items)

====
